---- MODULE Spec2Model ----
(***************************************************************************)
(* Model of rich-clipboard-macos (src/src/lib.rs): a PasteBoard handle     *)
(* with an interior-mutable change counter, layered on the NSPasteboard    *)
(* general pasteboard, which other processes write concurrently.           *)
(*                                                                         *)
(* The pasteboard is a list of (native identifier, bytes) items plus the   *)
(* change count that clearContents increments.  Strings cross the          *)
(* boundary as UTF-8: a Rust str is a valid UTF-8 byte sequence, an        *)
(* NSString is a sequence of code points, and the conversions between the  *)
(* two are computed, one- and two-byte forms only.                         *)
(*                                                                         *)
(* A panic unwinds out of the call (result "Panic"); the handle and the    *)
(* pasteboard stay as the call left them.                                  *)
(*                                                                         *)
(* get_contents and write_contents each send two messages to the           *)
(* pasteboard, and another process may write between the two, so each is   *)
(* two steps; every call ends with the step in which the caller takes the  *)
(* Result.                                                                 *)
(***************************************************************************)
EXTENDS Integers, Sequences, FiniteSets, TLC

\* ---------------------------------------------------------------- bounds
MaxLen == 1            \* longest payload: bytes of a Data, chars of a String
MaxCount == 2          \* the pasteboard change count stops growing here

Byte == {65, 195, 169} \* 'A', and the two bytes of U+00E9

\* ------------------------------------------------------- type registry
NSPasteboardTypeTIFF == "public.tiff"
NSPasteboardTypePNG == "public.png"
NSPasteboardTypePDF == "com.adobe.pdf"
NSPasteboardTypeHTML == "public.html"
NSPasteboardTypeRTF == "public.rtf"
NSPasteboardTypeTabularText == "public.utf8-tab-separated-values-text"
NSPasteboardTypeString == "public.utf8-plain-text"
NSPasteboardTypeFileURL == "public.file-url"
\* an identifier some other application uses, not one of the eight
CustomNative == "com.example.custom"
\* NSPasteboardType::from(Type::Other) does not return
Unimplemented == "unimplemented!"

Type == {"TIFF", "PNG", "PDF", "HTML", "RTF", "TabularText", "String",
         "FileUrl", "Other"}
BinaryType == {"TIFF", "PNG", "PDF"}
TextualType == {"FileUrl", "HTML", "RTF", "String", "TabularText"}

\* impl From<NSPasteboardType> for Type: isEqualToString, in this order
Type_from(ty) ==
  IF ty = NSPasteboardTypeTIFF THEN "TIFF"
  ELSE IF ty = NSPasteboardTypePNG THEN "PNG"
  ELSE IF ty = NSPasteboardTypePDF THEN "PDF"
  ELSE IF ty = NSPasteboardTypeHTML THEN "HTML"
  ELSE IF ty = NSPasteboardTypeRTF THEN "RTF"
  ELSE IF ty = NSPasteboardTypeTabularText THEN "TabularText"
  ELSE IF ty = NSPasteboardTypeString THEN "String"
  ELSE IF ty = NSPasteboardTypeFileURL THEN "FileUrl"
  ELSE "Other"

NSPasteboardType_from_swapped(ty) ==
  CASE ty = "FileUrl" -> NSPasteboardTypeFileURL
    [] ty = "HTML" -> NSPasteboardTypeHTML
    [] ty = "PDF" -> NSPasteboardTypePNG
    [] ty = "PNG" -> NSPasteboardTypePNG
    [] ty = "RTF" -> NSPasteboardTypeRTF
    [] ty = "String" -> NSPasteboardTypeString
    [] ty = "TIFF" -> NSPasteboardTypeTIFF
    [] ty = "TabularText" -> NSPasteboardTypeTabularText
    [] OTHER -> Unimplemented

\* impl From<Type> for NSPasteboardType
NSPasteboardType_from(ty) ==
  CASE ty = "FileUrl" -> NSPasteboardTypeFileURL
    [] ty = "HTML" -> NSPasteboardTypeHTML
    [] ty = "PDF" -> NSPasteboardTypePDF
    [] ty = "PNG" -> NSPasteboardTypePNG
    [] ty = "RTF" -> NSPasteboardTypeRTF
    [] ty = "String" -> NSPasteboardTypeString
    [] ty = "TIFF" -> NSPasteboardTypeTIFF
    [] ty = "TabularText" -> NSPasteboardTypeTabularText
    [] OTHER -> Unimplemented

\* ------------------------------------------------------------ payloads
RECURSIVE SeqsUpTo(_, _)
SeqsUpTo(S, n) ==
  IF n = 0 THEN {<<>>}
  ELSE LET shorter == SeqsUpTo(S, n - 1)
       IN shorter \cup {<<x>> \o s : x \in S, s \in {t \in shorter : Len(t) = n - 1}}

\* Box<[u8]>
Bytes == SeqsUpTo(Byte, MaxLen)

\* NSString initWithBytes:length:encoding:NSUTF8StringEncoding: the code
\* points of the bytes, or nil when the bytes are not UTF-8
RECURSIVE initWithBytes(_)
initWithBytes(b) ==
  IF b = <<>> THEN [nil |-> FALSE, val |-> <<>>]
  ELSE IF Head(b) < 128
    THEN LET r == initWithBytes(Tail(b))
         IN IF r.nil THEN r ELSE [nil |-> FALSE, val |-> <<Head(b)>> \o r.val]
  ELSE IF Head(b) >= 194 /\ Head(b) <= 223 /\ Len(b) >= 2
          /\ b[2] >= 128 /\ b[2] <= 191
    THEN LET r == initWithBytes(SubSeq(b, 3, Len(b)))
         IN IF r.nil THEN r
            ELSE [nil |-> FALSE,
                  val |-> <<(Head(b) - 192) * 64 + (b[2] - 128)>> \o r.val]
  ELSE [nil |-> TRUE, val |-> <<>>]

RECURSIVE as_str_lossy(_)
as_str_lossy(s) ==
  IF s = <<>> THEN <<>>
  ELSE IF Head(s) < 128 THEN <<Head(s)>> \o as_str_lossy(Tail(s))
  ELSE <<63>> \o as_str_lossy(Tail(s))

\* INSString::as_str: the UTF-8 bytes of the code points
RECURSIVE as_str(_)
as_str(s) ==
  IF s = <<>> THEN <<>>
  ELSE IF Head(s) < 128 THEN <<Head(s)>> \o as_str(Tail(s))
  ELSE <<192 + (Head(s) \div 64), 128 + (Head(s) % 64)>> \o as_str(Tail(s))

\* Box<str>: valid UTF-8 only, a char being one or two bytes here
Str ==
  {b \in SeqsUpTo(Byte, 2 * MaxLen) :
     LET s == initWithBytes(b) IN ~s.nil /\ Len(s.val) <= MaxLen}

NoContent == [kind |-> "None", val |-> <<>>]
Data(b) == [kind |-> "Data", val |-> b]
String(s) == [kind |-> "String", val |-> s]
Content == {Data(b) : b \in Bytes} \cup {String(s) : s \in Str}

\* ------------------------------------------- NSPasteboard, as the code uses it
Item(id, b) == [ty |-> id, data |-> b]

HasType(items, id) == \E i \in 1..Len(items) : items[i].ty = id
FirstOf(items, id) ==
  items[CHOOSE i \in 1..Len(items) :
          items[i].ty = id /\ \A j \in 1..(i - 1) : items[j].ty # id]

\* dataForType: the bytes held for the identifier, or nil
dataForType(items, id) ==
  IF HasType(items, id) THEN [nil |-> FALSE, val |-> FirstOf(items, id).data]
  ELSE [nil |-> TRUE, val |-> <<>>]

\* stringForType: the string held for the identifier, or nil
stringForType(items, id) ==
  IF HasType(items, id) THEN initWithBytes(FirstOf(items, id).data)
  ELSE [nil |-> TRUE, val |-> <<>>]

\* setData:forType: replaces the identifier's item or adds one at the end
setData(items, b, id) ==
  IF HasType(items, id)
  THEN [i \in 1..Len(items) |->
          IF items[i].ty = id THEN Item(id, b) ELSE items[i]]
  ELSE Append(items, Item(id, b))

\* setString:forType: stores the string's UTF-8 bytes
setString(items, s, id) == setData(items, as_str(s), id)

clearContents_keep(items) == items

\* clearContents: nothing is left
clearContents(items) == <<>>

\* [board types]
NativeTypes(items) == [i \in 1..Len(items) |-> items[i].ty]

\* what other applications put on the pasteboard
ExternalContents ==
  { <<Item(CustomNative, <<65>>)>>,
    <<Item(NSPasteboardTypeString, <<65>>), Item(CustomNative, <<65>>),
      Item(NSPasteboardTypePNG, <<169>>)>>,
    <<Item(NSPasteboardTypeHTML, <<195>>)>>,
    <<Item(NSPasteboardTypeRTF, <<195, 169>>)>> }

\* ---------------------------------------------------------------- state
VARIABLES
  pbItems,       \* the general pasteboard: its items, in the platform's order
  pbChangeCount, \* the general pasteboard: [board changeCount]
  change_count,  \* PasteBoard.change_count
  pc,            \* "idle", the step a call of the handle is at, or "ret"
                 \* when a call hands its result to the caller
  cur,           \* the call in progress
  last,          \* the call that is returning
  written,       \* the last write that returned Ok, while the pasteboard
                 \* has not been changed since
  reads,         \* the get_contents(_, true) calls returned since that
                 \* write: 0, 1, 2, or 3 for any other sequence of reads
  fresh,         \* no get_contents was called on the handle yet
  since          \* the pasteboard's change count and the handle's latest
                 \* get_contents: "none" no such call yet, "same" the count
                 \* is the one the call queried, "during" it was raised
                 \* before the call's fetch, "between" after the call

vars == <<pbItems, pbChangeCount, change_count, pc, cur, last, written,
          reads, fresh, since>>

\* ext: another process wrote between the two steps of the call; since:
\* the value of since when the call began
NoCall == [ty |-> "Other", newer |-> FALSE, obj |-> NoContent,
           content |-> NoContent, seen |-> 0, stored |-> 0, first |-> FALSE,
           ext |-> FALSE, since |-> "none"]
\* clean: no other process wrote between the clear and the set
NoWrite == [valid |-> FALSE, ty |-> "Other", content |-> NoContent,
            clean |-> FALSE]

\* op, ty, newer: the call; res, out, list: what it returned; calls: the
\* messages it sent to the pasteboard; seen: the change count it queried;
\* stored: change_count when it was called; first: it was the handle's
\* first get_contents; absent: the platform answered nil to its fetch;
\* kind: the variant of the Content a write was given; since: the value of
\* since when a get_contents began
NoReturn == [op |-> "none", ty |-> "Other", newer |-> FALSE, res |-> "Ok",
             out |-> NoContent, list |-> <<>>, calls |-> <<>>, seen |-> 0,
             stored |-> 0, first |-> FALSE, absent |-> FALSE,
             kind |-> "None", since |-> "none"]

\* since, after the change count was raised
Raised == IF since = "same"
          THEN (IF pc = "get_fetch" THEN "during" ELSE "between")
          ELSE since

Read(newer) ==
  IF ~written.valid THEN 0
  ELSE IF newer /\ reads < 2 THEN reads + 1
  ELSE 3

\* ------------------------------------------------------ PasteBoard::new
InitialChangeCount == 0

Init ==
  /\ pbItems = <<>>
  /\ pbChangeCount = 0
  /\ change_count = InitialChangeCount
  /\ pc = "idle"
  /\ cur = NoCall
  /\ last = NoReturn
  /\ written = NoWrite
  /\ reads = 0
  /\ fresh = TRUE
  /\ since = "none"

\* a new handle replaces the one the caller held; board_is_null: the
\* platform has no general pasteboard to give
new(board_is_null) ==
  /\ pc = "idle"
  /\ IF board_is_null
     THEN /\ last' = [NoReturn EXCEPT !.op = "new", !.res = "Unavailable",
                                      !.calls = <<"generalPasteboard">>]
          /\ UNCHANGED <<change_count, written, reads, fresh, since>>
     ELSE /\ last' = [NoReturn EXCEPT !.op = "new",
                                      !.calls = <<"generalPasteboard">>]
          /\ change_count' = InitialChangeCount
          /\ written' = NoWrite
          /\ reads' = 0
          /\ fresh' = TRUE
          /\ since' = "none"
  /\ pc' = "ret"
  /\ UNCHANGED <<pbItems, pbChangeCount, cur>>

\* ----------------------------------------------- PasteBoard::get_contents
NoNewerContent_ge(newer, queried, stored) == newer /\ queried >= stored
NoNewerContent_lt(newer, queried, stored) == newer /\ queried < stored

\* the test of line 121
NoNewerContent(newer, queried, stored) == newer /\ queried = stored

Watermark_keep(queried, stored) == stored
Watermark_ahead(queried, stored) == queried + 1

\* the counter the handle keeps once the test has passed (line 124)
Watermark(queried, stored) == queried

\* lines 120-125: query the change count, compare, store
get_query(ty, newer) ==
  /\ pc = "idle"
  /\ fresh' = FALSE
  /\ since' = "same"
  /\ LET queried == pbChangeCount
     IN IF NoNewerContent(newer, queried, change_count)
        THEN /\ last' = [NoReturn EXCEPT !.op = "get", !.ty = ty,
                                         !.newer = newer, !.res = "NoNewer",
                                         !.calls = <<"changeCount">>,
                                         !.seen = queried,
                                         !.stored = change_count,
                                         !.first = fresh, !.since = since]
             /\ reads' = Read(newer)
             /\ pc' = "ret"
             /\ UNCHANGED <<change_count, cur>>
        ELSE /\ change_count' = Watermark(queried, change_count)
             /\ pc' = "get_fetch"
             /\ cur' = [NoCall EXCEPT !.ty = ty, !.newer = newer,
                                      !.seen = queried,
                                      !.stored = change_count,
                                      !.first = fresh, !.since = since]
             /\ last' = NoReturn
             /\ UNCHANGED reads
  /\ UNCHANGED <<pbItems, pbChangeCount, written>>

Fetch_no_other(ty, items) ==
  IF ty \in BinaryType
  THEN LET data == dataForType(items, NSPasteboardType_from(ty))
       IN [res |-> IF data.nil THEN "Panic" ELSE "Ok",
           out |-> IF data.nil THEN NoContent ELSE Data(data.val),
           absent |-> data.nil, call |-> <<"dataForType">>]
  ELSE LET string == stringForType(items, NSPasteboardType_from(ty))
       IN [res |-> IF string.nil THEN "Panic" ELSE "Ok",
           out |-> IF string.nil THEN NoContent
                   ELSE String(as_str(string.val)),
           absent |-> string.nil, call |-> <<"stringForType">>]

\* lines 126-142: the result of the match, and the platform call it makes
Fetch(ty, items) ==
  IF ty \in BinaryType
  THEN LET data == dataForType(items, NSPasteboardType_from(ty))
       IN IF data.nil
          THEN [res |-> "Panic", out |-> NoContent, absent |-> TRUE,
                call |-> <<"dataForType">>]
          ELSE [res |-> "Ok", out |-> Data(data.val), absent |-> FALSE,
                call |-> <<"dataForType">>]
  ELSE IF ty \in TextualType
  THEN LET string == stringForType(items, NSPasteboardType_from(ty))
       IN IF string.nil
          THEN [res |-> "Panic", out |-> NoContent, absent |-> TRUE,
                call |-> <<"stringForType">>]
          ELSE [res |-> "Ok", out |-> String(as_str(string.val)),
                absent |-> FALSE, call |-> <<"stringForType">>]
  ELSE [res |-> "Unsupported", out |-> NoContent, absent |-> FALSE,
        call |-> <<>>]

\* lines 126-143, any time after the query
get_fetch ==
  /\ pc = "get_fetch"
  /\ LET f == Fetch(cur.ty, pbItems)
     IN last' = [NoReturn EXCEPT !.op = "get", !.ty = cur.ty,
                                 !.newer = cur.newer, !.res = f.res,
                                 !.out = f.out,
                                 !.calls = <<"changeCount">> \o f.call,
                                 !.seen = cur.seen, !.stored = cur.stored,
                                 !.first = cur.first, !.absent = f.absent,
                                 !.since = cur.since]
  /\ reads' = Read(cur.newer)
  /\ pc' = "ret"
  /\ cur' = NoCall
  /\ UNCHANGED <<pbItems, pbChangeCount, change_count, written, fresh,
                 since>>

\* --------------------------------------------- PasteBoard::write_contents
PayloadObject_short(content) ==
  IF content.kind = "Data"
  THEN [nil |-> FALSE,
        val |-> SubSeq(content.val, 1, Len(content.val) - 1)]
  ELSE initWithBytes(content.val)

\* lines 151-158 and 167-176: the NSData or NSString made of the payload
PayloadObject(content) ==
  IF content.kind = "Data" THEN [nil |-> FALSE, val |-> content.val]
  ELSE initWithBytes(content.val)

\* lines 149-159 and 166-177: make the object, then clearContents;
\* alloc_ok: the Objective-C runtime returned an object
write_clear(content, ty, alloc_ok) ==
  /\ pc = "idle"
  /\ LET o == PayloadObject(content)
     IN IF o.nil \/ ~alloc_ok
        THEN /\ last' = [NoReturn EXCEPT !.op = "write", !.ty = ty,
                                         !.res = "InitFail",
                                         !.kind = content.kind]
             /\ pc' = "ret"
             /\ UNCHANGED <<pbItems, pbChangeCount, cur, written, reads,
                            since>>
        ELSE /\ pbChangeCount < MaxCount
             /\ pbItems' = clearContents(pbItems)
             /\ since' = Raised
             /\ pbChangeCount' = pbChangeCount + 1
             /\ pc' = "write_set"
             /\ cur' = [NoCall EXCEPT !.ty = ty, !.content = content,
                                      !.obj = [kind |-> content.kind,
                                               val |-> o.val]]
             /\ written' = NoWrite
             /\ reads' = 0
             /\ last' = NoReturn
  /\ UNCHANGED <<change_count, fresh>>

\* lines 160 and 178: the items after setData:forType: or setString:forType:
SetForType(items, obj, id) ==
  IF obj.kind = "Data" THEN setData(items, obj.val, id)
  ELSE setString(items, obj.val, id)

SetResult_ignored(set_ok) == "Ok"

\* lines 160-164 and 178-182: the Result made of the platform's BOOL
SetResult(set_ok) == IF set_ok THEN "Ok" ELSE "SetFail"

\* lines 160-164 and 178-182; set_ok: the platform's answer, the payload
\* being on the pasteboard when it is YES
write_set(set_ok) ==
  /\ pc = "write_set"
  /\ LET id == NSPasteboardType_from(cur.ty)
         call == IF cur.obj.kind = "Data" THEN "setData" ELSE "setString"
         ret == [NoReturn EXCEPT !.op = "write", !.ty = cur.ty,
                                 !.kind = cur.content.kind]
     IN IF id = Unimplemented
        THEN /\ last' = [ret EXCEPT !.res = "Panic",
                                    !.calls = <<"clearContents">>]
             /\ UNCHANGED <<pbItems, written, reads>>
        ELSE /\ pbItems' = IF set_ok THEN SetForType(pbItems, cur.obj, id)
                           ELSE pbItems
             /\ last' = [ret EXCEPT !.res = SetResult(set_ok),
                                    !.calls = <<"clearContents", call>>]
             /\ IF SetResult(set_ok) = "Ok"
                THEN /\ written' = [valid |-> TRUE, ty |-> cur.ty,
                                    content |-> cur.content,
                                    clean |-> ~cur.ext]
                     /\ reads' = 0
                ELSE UNCHANGED <<written, reads>>
  /\ pc' = "ret"
  /\ cur' = NoCall
  /\ UNCHANGED <<pbChangeCount, change_count, fresh, since>>

\* ------------------------------------------------------ PasteBoard::types
RECURSIVE filter_map_inverted(_)
filter_map_inverted(natives) ==
  IF natives = <<>> THEN <<>>
  ELSE LET ty == Type_from(Head(natives))
       IN IF ty # "Other" THEN filter_map_inverted(Tail(natives))
          ELSE <<ty>> \o filter_map_inverted(Tail(natives))

RECURSIVE filter_map_keep_all(_)
filter_map_keep_all(natives) ==
  IF natives = <<>> THEN <<>>
  ELSE <<Type_from(Head(natives))>> \o filter_map_keep_all(Tail(natives))

RECURSIVE filter_map_reversed(_)
filter_map_reversed(natives) ==
  IF natives = <<>> THEN <<>>
  ELSE LET ty == Type_from(Head(natives))
       IN IF ty = "Other" THEN filter_map_reversed(Tail(natives))
          ELSE filter_map_reversed(Tail(natives)) \o <<ty>>

\* lines 191-201: Type::from each identifier, Other dropped
RECURSIVE filter_map(_)
filter_map(natives) ==
  IF natives = <<>> THEN <<>>
  ELSE LET ty == Type_from(Head(natives))
       IN IF ty = "Other" THEN filter_map(Tail(natives))
          ELSE <<ty>> \o filter_map(Tail(natives))

types_sync ==
  /\ pc = "idle"
  /\ last' = [NoReturn EXCEPT !.op = "types",
                              !.list = filter_map(NativeTypes(pbItems)),
                              !.calls = <<"types">>]
  /\ pc' = "ret"
  /\ change_count' = pbChangeCount
  /\ UNCHANGED <<pbItems, pbChangeCount, cur, written, reads, fresh, since>>

types ==
  /\ pc = "idle"
  /\ last' = [NoReturn EXCEPT !.op = "types",
                              !.list = filter_map(NativeTypes(pbItems)),
                              !.calls = <<"types">>]
  /\ pc' = "ret"
  /\ UNCHANGED <<pbItems, pbChangeCount, change_count, cur, written, reads,
                 fresh, since>>

\* ------------------------------------------------------------ the caller
\* the caller takes the Result; the handle is ready for the next call
ret ==
  /\ pc = "ret"
  /\ pc' = "idle"
  /\ last' = NoReturn
  /\ UNCHANGED <<pbItems, pbChangeCount, change_count, cur, written, reads,
                 fresh, since>>

\* --------------------------------------------------- the other processes
\* another application replaces the pasteboard's contents, between two
\* calls of the handle or between two steps of one
ExternalWrite(items) ==
  /\ pc # "ret"
  /\ pbChangeCount < MaxCount
  /\ pbItems' = items
  /\ pbChangeCount' = pbChangeCount + 1
  /\ written' = NoWrite
  /\ reads' = 0
  /\ last' = NoReturn
  /\ since' = Raised
  /\ cur' = IF pc = "idle" THEN cur ELSE [cur EXCEPT !.ext = TRUE]
  /\ UNCHANGED <<change_count, pc, fresh>>

\* ---------------------------------------------------------- specification
New == \E board_is_null \in BOOLEAN : new(board_is_null)
GetQuery == \E ty \in Type, newer \in BOOLEAN : get_query(ty, newer)
GetFetch == get_fetch
WriteClear ==
  \E ty \in Type :
    \/ \E content \in Content : write_clear(content, ty, TRUE)
    \/ \E content \in {Data(<<>>), String(<<>>)} :
         write_clear(content, ty, FALSE)
WriteSet == \E set_ok \in BOOLEAN : write_set(set_ok)
Types == types
Return == ret
External == \E items \in ExternalContents : ExternalWrite(items)

Next ==
  \/ New
  \/ GetQuery
  \/ GetFetch
  \/ WriteClear
  \/ WriteSet
  \/ Types
  \/ Return
  \/ External

Spec == Init /\ [][Next]_vars

\* ------------------------------------------------------------- properties
\* C1: after a write_contents that returned Ok, and with no change of the
\* pasteboard since, the first get_contents(_, true) does not report "no
\* newer content", and the second consecutive get_contents(_, true) does.
C1_ChangeDetection ==
  (written.valid /\ last.op = "get" /\ last.newer) =>
    /\ (reads = 1 => last.res # "NoNewer")
    /\ (reads = 2 => last.res = "NoNewer")

C1_Witness ==
  /\ written.valid /\ reads = 2
  /\ last.op = "get" /\ last.newer /\ last.res = "NoNewer"
  /\ change_count = pbChangeCount /\ pbChangeCount > 0

\* C2: a String written under a textual type and read back under the same
\* type with newer = false, the pasteboard unchanged in between, comes back
\* as Content::String of the same bytes.
C2_TextRoundTrip ==
  (/\ written.valid /\ written.ty \in TextualType
   /\ written.content.kind = "String"
   /\ last.op = "get" /\ ~last.newer /\ last.ty = written.ty)
  => (last.res = "Ok" /\ last.out = written.content)

C2_Witness ==
  /\ written.valid /\ written.ty \in TextualType
  /\ written.content = String(<<195, 169>>)
  /\ last.op = "get" /\ ~last.newer /\ last.ty = written.ty
  /\ last.out = String(<<195, 169>>)

\* C3: a Data written under a binary type and read back under the same type
\* with newer = false, the pasteboard unchanged in between, comes back as
\* Content::Data of the same bytes.
C3_BinaryRoundTrip ==
  (/\ written.valid /\ written.ty \in BinaryType
   /\ written.content.kind = "Data"
   /\ last.op = "get" /\ ~last.newer /\ last.ty = written.ty)
  => (last.res = "Ok" /\ last.out = written.content)

C3_Witness ==
  /\ written.valid /\ written.ty \in BinaryType
  /\ written.content = Data(<<195>>)
  /\ last.op = "get" /\ ~last.newer /\ last.ty = written.ty
  /\ last.out = Data(<<195>>)

\* C4: a get_contents that passes the counter test and whose fetch the
\* platform answers with nil returns the error "no data for type": it
\* neither panics nor returns a Content.
C4_AbsentTypeIsError ==
  (last.op = "get" /\ last.absent) => last.res = "NoDataForType"

\* C5, as claimed: get_contents(Other, _) returns "unsupported type" in
\* every state and sends no message to the pasteboard.
C5_OtherAlwaysUnsupported ==
  (last.op = "get" /\ last.ty = "Other") =>
    (last.res = "Unsupported" /\ last.calls = <<>>)

\* C5, amended: get_contents(Other, newer) queries the change count and
\* nothing else; it returns "no newer content" when newer is true and the
\* count equals the stored one, and "unsupported type" otherwise.
C5_OtherUnsupportedAfterTest ==
  (last.op = "get" /\ last.ty = "Other") =>
    /\ last.calls = <<"changeCount">>
    /\ last.res = IF last.newer /\ last.seen = last.stored
                  THEN "NoNewer" ELSE "Unsupported"

C5_Witness ==
  /\ last.op = "get" /\ last.ty = "Other" /\ last.newer
  /\ last.res = "Unsupported" /\ last.seen > last.stored

\* C6: get_contents(ty, true) called while the pasteboard's change count
\* equals the stored one returns "no newer content" for every ty, fetches
\* nothing, and leaves the stored counter and the pasteboard as they were.
C6_NoNewerWhenEqual ==
  [][\A ty \in Type :
       (pbChangeCount = change_count /\ get_query(ty, TRUE)) =>
         /\ last'.op = "get" /\ last'.res = "NoNewer"
         /\ last'.calls = <<"changeCount">>
         /\ pc' = "ret"
         /\ UNCHANGED <<change_count, pbItems, pbChangeCount>>]_vars

C6_Witness ==
  /\ last.op = "get" /\ last.newer /\ last.res = "NoNewer"
  /\ last.seen = last.stored /\ last.ty \in BinaryType
  /\ pbItems # <<>> /\ pc = "ret"

\* C7: a get_contents that passed the counter test leaves the stored
\* counter at the count it queried, whatever its fetch returned; a later
\* get_contents(_, true) on the handle, the count being still the stored
\* one, reports "no newer content".
C7_WatermarkAdvances ==
  /\ []((last.op = "get" /\ last.res # "NoNewer") =>
          change_count = last.seen)
  /\ [][\A ty \in Type :
          (/\ ~fresh /\ pbChangeCount = change_count
           /\ get_query(ty, TRUE)) => last'.res = "NoNewer"]_vars

C7_Witness ==
  /\ last.op = "get" /\ last.res = "Panic" /\ last.absent
  /\ last.seen > last.stored /\ change_count = last.seen

\* C8: the stored change counter never exceeds the pasteboard's change
\* count.
C8_WatermarkBelowPlatform == change_count <= pbChangeCount

C8_Witness ==
  /\ last.op = "get" /\ last.res = "Ok"
  /\ change_count = pbChangeCount /\ pbChangeCount = MaxCount

\* C9: the first get_contents(_, true) on a handle never reports "no newer
\* content".
C9_FirstReadNotSuppressed ==
  (last.op = "get" /\ last.newer /\ last.first) => last.res # "NoNewer"

\* C10: after a write_contents(_, T) that returned Ok, and with no change of
\* the pasteboard since, types() returns a list that contains T.
C10_TypesContainsWritten ==
  (written.valid /\ last.op = "types") =>
    /\ last.res = "Ok"
    /\ written.ty # "Other"
    /\ \E i \in 1..Len(last.list) : last.list[i] = written.ty

C10_Witness ==
  /\ written.valid /\ last.op = "types"
  /\ Len(pbItems) > 1
  /\ \E i \in 1..Len(last.list) : last.list[i] = written.ty

\* the eight identifiers Type::from recognises
Recognised ==
  {NSPasteboardTypeTIFF, NSPasteboardTypePNG, NSPasteboardTypePDF,
   NSPasteboardTypeHTML, NSPasteboardTypeRTF, NSPasteboardTypeTabularText,
   NSPasteboardTypeString, NSPasteboardTypeFileURL}

\* C11: the list types() returns never contains Other, and has one entry
\* for each item of the pasteboard whose identifier is one of the eight
\* recognised ones, none for the others.
C11_TypesExcludesOther ==
  (last.op = "types") =>
    /\ \A i \in 1..Len(last.list) : last.list[i] # "Other"
    /\ Len(last.list) =
         Cardinality({i \in 1..Len(pbItems) : pbItems[i].ty \in Recognised})

C11_Witness ==
  /\ last.op = "types"
  /\ \E i \in 1..Len(pbItems) : pbItems[i].ty = CustomNative
  /\ Len(last.list) = 2 /\ Len(pbItems) = 3

\* C12: write_contents(_, Other) returns the error "unsupported type" to
\* the caller; it does not panic.
C12_WriteOtherIsError ==
  (last.op = "write" /\ last.ty = "Other" /\ last.res # "InitFail") =>
    last.res = "Unsupported"

\* the variant of the Content does not fit the type
Mismatch(kind, ty) ==
  \/ kind = "Data" /\ ty \in TextualType
  \/ kind = "String" /\ ty \in BinaryType

\* C13: a write_contents of a Data under a textual type, or of a String
\* under a binary type, returns the error "type content mismatch" and the
\* payload is not on the pasteboard under that type.
C13_MismatchRejected ==
  (last.op = "write" /\ Mismatch(last.kind, last.ty)
   /\ last.res # "InitFail") =>
    /\ last.res = "TypeContentMismatch"
    /\ ~HasType(pbItems, NSPasteboardType_from(last.ty))

\* C14: after a write_contents(_, T) that returned Ok, no other process
\* having written since the call began, the pasteboard holds one item, T's;
\* types() lists T only and get_contents of another type returns no
\* content.
C14_WriteReplacesAll ==
  (written.valid /\ written.clean) =>
    /\ Len(pbItems) = 1
    /\ pbItems[1].ty = NSPasteboardType_from(written.ty)
    /\ (last.op = "types" => last.list = <<written.ty>>)
    /\ ((last.op = "get" /\ last.ty # written.ty) => last.res # "Ok")

C14_Witness ==
  /\ written.valid /\ written.clean /\ pbChangeCount = 2
  /\ last.op = "get" /\ last.ty # written.ty /\ last.ty # "Other"
  /\ ~last.newer /\ last.res = "Panic"

\* C15: when setData:forType: or setString:forType: answers NO,
\* write_contents returns the error "write rejected", neither Ok nor a
\* panic, and the stored counter is as it was.
C15_SetFailureIsError ==
  [][(pc = "write_set" /\ cur.ty # "Other" /\ write_set(FALSE)) =>
       /\ last'.op = "write" /\ last'.res = "SetFail"
       /\ ~written'.valid
       /\ change_count' = change_count]_vars

C15_Witness ==
  /\ last.op = "write" /\ last.res = "SetFail"
  /\ last.calls = <<"clearContents", "setString">>
  /\ pbItems = <<>> /\ change_count < pbChangeCount

\* C16: Type::from(NSPasteboardType::from(T)) = T for each of the eight T
\* other than Other, so that no two of them have the same identifier; and
\* Type::from gives Other for every identifier that equals none of the
\* eight, as the identifiers on the pasteboard show.
C16_RegistryRoundTrip ==
  /\ \A t \in Type \ {"Other"} : Type_from(NSPasteboardType_from(t)) = t
  /\ \A t, u \in Type \ {"Other"} :
       NSPasteboardType_from(t) = NSPasteboardType_from(u) => t = u
  /\ \A i \in 1..Len(pbItems) :
       /\ pbItems[i].ty \notin Recognised => Type_from(pbItems[i].ty) = "Other"
       /\ pbItems[i].ty \in Recognised =>
            NSPasteboardType_from(Type_from(pbItems[i].ty)) = pbItems[i].ty

C16_Witness ==
  /\ written.valid /\ ~written.clean /\ written.ty = "PDF"
  /\ last.op = "types"
  /\ \E i \in 1..Len(pbItems) : pbItems[i].ty = CustomNative
  /\ \E i \in 1..Len(last.list) : last.list[i] = "PDF"

\* C17: every step that begins a write_contents leaves the pasteboard
\* empty, whatever the call then returns.
C17_ClearComesFirst ==
  [][\A ty \in Type, content \in Content, alloc_ok \in BOOLEAN :
       write_clear(content, ty, alloc_ok) => pbItems' = <<>>]_vars

\* the platform's identifiers through Type::from, Other dropped, in order
Projection(items) ==
  SelectSeq([i \in 1..Len(items) |-> Type_from(items[i].ty)],
            LAMBDA t : t # "Other")

\* C18: the list types() returns is the pasteboard's list of identifiers
\* mapped through Type::from with the Other entries removed, the remaining
\* entries in the platform's order.
C18_TypesIsProjection ==
  (last.op = "types") => last.list = Projection(pbItems)

C18_Witness ==
  /\ last.op = "types"
  /\ last.list = <<"String", "PNG">>
  /\ Len(pbItems) = 3

\* C19: a get_contents(_, true) that begins after the pasteboard's change
\* count was raised since the handle's previous get_contents queried it,
\* be it before that call's fetch or after the call, does not report "no
\* newer content".
C19_NoChangeMissed ==
  (last.op = "get" /\ last.newer /\ last.since \in {"during", "between"}) =>
    last.res # "NoNewer"

C19_Witness ==
  /\ last.op = "get" /\ last.newer /\ last.since = "during"
  /\ last.res = "Ok" /\ last.seen = last.stored + 1

\* C20: write_contents and types() leave the stored counter as it was,
\* types() leaves the pasteboard and its change count as they were, and
\* the stored counter of a handle changes only in a get_contents that
\* passed the counter test.
C20_WatermarkFrame ==
  [][/\ (last'.op = "types" =>
          UNCHANGED <<change_count, pbItems, pbChangeCount>>)
     /\ ((pc' = "write_set" \/ last'.op = "write") =>
          UNCHANGED change_count)
     /\ (change_count' # change_count =>
          /\ pc = "idle"
          /\ (pc' = "get_fetch" \/ (last'.op = "new" /\ fresh')))]_vars

C20_Witness ==
  /\ last.op = "types" /\ last.list # <<>>
  /\ written.valid /\ change_count < pbChangeCount /\ ~fresh

TypeOK ==
  /\ pbChangeCount \in 0..MaxCount
  /\ change_count \in 0..MaxCount
  /\ pc \in {"idle", "get_fetch", "write_set", "ret"}
  /\ (pc # "ret") = (last = NoReturn)
  /\ last.op \in {"none", "new", "get", "write", "types"}
  /\ reads \in 0..3
====
